---------------------------- MODULE Spec2Model ----------------------------
(***************************************************************************)
(* A model of the three report scripts of the repository:                  *)
(*                                                                         *)
(*   who-has-prs/prs-by-dev-html.py   GitHubPRFetcher (paginated fetch of  *)
(*                                    open pull requests, review-feedback  *)
(*                                    and staleness classification,        *)
(*                                    aggregation per developer)           *)
(*   who-has-prs/who-has-prs.py       GitHubPRFetcher (single-page fetch)  *)
(*   num-commits-by-month/            get_commit_count (paginated count)   *)
(*     github_commit_report.py                                             *)
(*                                                                         *)
(* The GitHub API, the configuration file and the clock are the inputs:    *)
(* every HTTP response is drawn from a small set when the request is       *)
(* issued.  An uncaught Python exception ends the run in pc = "raised"     *)
(* with its class name in exc.                                             *)
(*                                                                         *)
(* Pass-through fields of a pull request (title, author, url, assignees)   *)
(* are copied by the code and never read by it; they are left out of the   *)
(* records.  Rendering (JSON, HTML) is not modelled.  Every answer with a  *)
(* body carries well-formed JSON of the endpoint's shape.                  *)
(***************************************************************************)
EXTENDS Integers, Sequences, FiniteSets, TLC

VARIABLES
    script,         \* the entry point that runs
    cfgFile,        \* the configuration file as found on disk (input)
    pc,             \* position of the run
    exc,            \* class of the uncaught exception, "none" if none
    logged,         \* logging calls of the configuration load
    repositories,   \* configured repositories (repos / REPOS)
    developers,     \* configured developers (self.developers)
    days_stale,     \* self.days_stale
    repoIdx,        \* position of the `for repo in repos` loop
    monthIdx,       \* position of the `for since, until, label` loop
    page,           \* local `page` of the running fetch
    all_prs,        \* local `all_prs` of the running fetch_open_prs frame
    total_commits,  \* local `total_commits` of get_commit_count
    frameLog,       \* requests issued by the running frame and their answers
    returned,       \* value returned by the last fetch
    clock,          \* int(time.time()), epoch seconds
    budget,         \* answers so far that made a fetch go on
    pos,            \* <<i, j>>: pull request and requested reviewer in turn
    reviewers_data, \* local `reviewers_data` of extract_reviewers
    report,         \* all_reviewers_data / all_pr_data / report_data
    fetched,        \* history: the fetched pull requests that request a review
    feedbackLog,    \* history: <<repo, number, reviewer, has feedback>>
    abandoned,      \* history: sizes of the lists the restarts of the running
                    \* fetch_open_prs call left behind
    last            \* history: what the last step did (overwritten each step)

vars == <<script, cfgFile, pc, exc, logged, repositories, developers,
          days_stale, repoIdx, monthIdx, page, all_prs, total_commits,
          frameLog, returned, clock, budget, pos, reviewers_data, report,
          fetched, feedbackLog, abandoned, last>>

---------------------------------------------------------------------------
(* Bounds of the model *)

\* Answers per run that make a fetch go on (a non-empty page, a rate-limit
\* restart); once used up the API only gives answers that end the fetch.
MaxContinue == 3

(* Program constants *)

\* per_page=100 of the pulls URL, per_page and the `< 100` test of commits
PageSize == 100

\* default of days_stale
DefaultDaysStale == 7

---------------------------------------------------------------------------
(* Calendar: datetime.strptime(..., "%Y-%m-%dT%H:%M:%SZ") as epoch seconds *)

\* Days from 1970-01-01 to the civil date y-m-d (proleptic Gregorian).
DaysFromCivil(y, m, d) ==
    LET yy  == IF m <= 2 THEN y - 1 ELSE y
        era == yy \div 400
        yoe == yy - era * 400
        mp  == IF m > 2 THEN m - 3 ELSE m + 9
        doy == (153 * mp + 2) \div 5 + d - 1
        doe == yoe * 365 + yoe \div 4 - yoe \div 100 + doy
    IN  era * 146097 + doe - 719468

\* A timestamp <<Y, M, D, h, m, s>> in UTC as epoch seconds.
ParseUpdatedAt(ts) ==
    DaysFromCivil(ts[1], ts[2], ts[3]) * 86400 + ts[4] * 3600 + ts[5] * 60 + ts[6]

\* The clock at the start of a run: 2025-03-10T12:00:00Z.
Epoch0 == ParseUpdatedAt(<<2025, 3, 10, 12, 0, 0>>)

---------------------------------------------------------------------------
(* Configuration files *)

Scripts == {"prs_by_dev_html", "who_has_prs", "commit_report"}

\* What the script finds at the configuration path: no file, a file that is
\* not YAML (yaml.safe_load raises YAMLError), an empty file (yaml.safe_load
\* returns None), or a mapping.
ConfigFiles ==
    { [kind |-> "missing"], [kind |-> "malformed"], [kind |-> "empty"],
      [kind |-> "mapping",
       map  |-> [repositories |-> <<"o/r1">>,
                 developers |-> <<"alice", "bob">>, repos |-> <<"o/r1">>]],
      [kind |-> "mapping",
       map  |-> [repositories |-> <<"o/r1", "o/r2">>,
                 developers |-> <<"bob">>, days_stale |-> 1,
                 repos |-> <<"o/r2">>]],
      [kind |-> "mapping", map |-> [developers |-> <<"alice">>]],
      [kind |-> "mapping", map |-> [repositories |-> <<"o/r1">>]] }

\* dict.get(key, default)
Get(map, key, default) == IF key \in DOMAIN map THEN map[key] ELSE default

\* What a configuration load gives: the exception that leaves it ("none" if
\* it returns), the values it returns and its logging calls.
Loaded(raised, repos, devs, days, logs) ==
    [raised |-> raised, repositories |-> repos, developers |-> devs,
     days_stale |-> days, logged |-> logs]

\* load_config of prs-by-dev-html.py
load_config(file) ==
    CASE file.kind = "missing" ->
            Loaded("none", <<>>, <<>>, DefaultDaysStale, <<"error">>)
      [] file.kind = "malformed" ->
            Loaded("none", <<>>, <<>>, DefaultDaysStale, <<"error">>)
      [] file.kind = "empty" ->
            \* config is None: config.get raises, and only FileNotFoundError
            \* and yaml.YAMLError are caught
            Loaded("AttributeError", <<>>, <<>>, DefaultDaysStale, <<>>)
      [] file.kind = "mapping" ->
            LET r == Get(file.map, "repositories", <<>>)
                d == Get(file.map, "developers", <<>>)
                s == Get(file.map, "days_stale", DefaultDaysStale)
            IN  Loaded("none", r, d, s,
                       (IF r = <<>> THEN <<"warning">> ELSE <<>>)
                       \o (IF d = <<>> THEN <<"warning">> ELSE <<>>))

\* The configuration load of who-has-prs.py's __main__: no handler at all.
who_has_prs_config(file) ==
    CASE file.kind = "missing" ->
            Loaded("FileNotFoundError", <<>>, <<>>, DefaultDaysStale, <<>>)
      [] file.kind = "malformed" ->
            Loaded("YAMLError", <<>>, <<>>, DefaultDaysStale, <<>>)
      [] file.kind = "empty" ->
            Loaded("AttributeError", <<>>, <<>>, DefaultDaysStale, <<>>)
      [] file.kind = "mapping" ->
            Loaded("none", Get(file.map, "repositories", <<>>), <<>>,
                   DefaultDaysStale, <<>>)

\* load_repos_from_yaml of github_commit_report.py: no handler at all.
load_repos_from_yaml(file) ==
    CASE file.kind = "missing" ->
            Loaded("FileNotFoundError", <<>>, <<>>, DefaultDaysStale, <<>>)
      [] file.kind = "malformed" ->
            Loaded("YAMLError", <<>>, <<>>, DefaultDaysStale, <<>>)
      [] file.kind = "empty" ->
            Loaded("AttributeError", <<>>, <<>>, DefaultDaysStale, <<>>)
      [] file.kind = "mapping" ->
            Loaded("none", Get(file.map, "repos", <<>>), <<>>,
                   DefaultDaysStale, <<>>)

\* The configuration load of the entry point `s`.
LoadStep(s, file) ==
    CASE s = "prs_by_dev_html" -> load_config(file)
      [] s = "who_has_prs"     -> who_has_prs_config(file)
      [] s = "commit_report"   -> load_repos_from_yaml(file)

---------------------------------------------------------------------------
(* The GitHub API: what a request may be answered with *)

\* requested_reviewers of pull request `num` of a repository.
ReviewersOf(num) ==
    CASE num = 1            -> <<"alice">>
      [] num = 2            -> <<"carol", "bob", "alice">>
      [] num = 3            -> <<"Alice">>
      [] num = PageSize + 1 -> <<"bob">>
      [] OTHER              -> <<>>

\* updated_at of pull request `num`: 7 days, 1 day, and 9 days 1 second
\* before the start of the run.
UpdatedAtOf(num) ==
    CASE num = 1            -> <<2025, 3, 3, 12, 0, 0>>
      [] num = 2            -> <<2025, 3, 9, 12, 0, 0>>
      [] OTHER              -> <<2025, 2, 28, 23, 59, 59>>

PullRequest(repo, num) ==
    [repo |-> repo, number |-> num,
     requested_reviewers |-> ReviewersOf(num),
     updated_at |-> UpdatedAtOf(num)]

\* The `n` items the API lists on page `p` of a repository's open pull
\* requests (or commits): numbered on from the pages before.
PullsPage(repo, p, n) ==
    [k \in 1..n |-> PullRequest(repo, (p - 1) * PageSize + k)]

CommitsPage(p, n) == [k \in 1..n |-> (p - 1) * PageSize + k]

\* requests.get raised a RequestException (connection error, timeout).
NetworkError ==
    [kind |-> "error", status |-> 0, rl |-> FALSE, hasReset |-> FALSE,
     reset |-> 0, body |-> <<>>]

\* An HTTP response: status, whether X-RateLimit-Remaining is among the
\* headers, X-RateLimit-Reset if it is, and the JSON body.
Http(status, rl, hasReset, reset, body) ==
    [kind |-> "http", status |-> status, rl |-> rl, hasReset |-> hasReset,
     reset |-> reset, body |-> body]

PageLens == {0, 1, PageSize - 1, PageSize}

\* The JSON object of an error answer, as the keys a list would take from it.
ErrorBody == <<"message", "documentation_url">>

\* X-RateLimit-Reset relative to the clock: in the past and in the future.
ResetOffsets == {-2, -1, 0}

\* Answers to a list request whose page would hold the items body[n] when
\* it has n of them.
ListResponses(body, now) ==
    {NetworkError}
    \cup {Http(200, FALSE, FALSE, 0, body[n]) : n \in PageLens}
    \cup {Http(202, FALSE, FALSE, 0, body[1])}
    \cup {Http(403, TRUE, TRUE, now + d, ErrorBody) : d \in ResetOffsets}
    \cup {Http(403, TRUE, FALSE, 0, ErrorBody)}
    \cup {Http(403, FALSE, FALSE, 0, ErrorBody),
          Http(500, FALSE, FALSE, 0, ErrorBody)}

\* A response without its body, for the history variables.
Summary(resp) ==
    [kind |-> resp.kind, status |-> resp.status, rl |-> resp.rl,
     hasReset |-> resp.hasReset, reset |-> resp.reset, n |-> Len(resp.body)]

Logins == {"alice", "Alice", "bob"}

Comment(login) == [login |-> login]

Review(login, state) == [login |-> login, state |-> state]

\* Answers of the issue-comments endpoint to a run.
RunComments ==
    {NetworkError, Http(200, FALSE, FALSE, 0, <<>>),
     Http(200, FALSE, FALSE, 0, <<Comment("alice")>>)}

\* Answers of the reviews endpoint to a run.
RunReviews ==
    {Http(404, FALSE, FALSE, 0, ErrorBody), Http(200, FALSE, FALSE, 0, <<>>),
     Http(200, FALSE, FALSE, 0, <<Review("bob", "APPROVED")>>)}

\* Answers of the issue-comments endpoint, for has_reviewer_feedback alone.
CommentsResponses ==
    {NetworkError, Http(500, FALSE, FALSE, 0, ErrorBody),
     Http(200, FALSE, FALSE, 0, <<>>)}
    \cup {Http(200, FALSE, FALSE, 0, <<Comment("carol"), Comment(l)>>) :
            l \in Logins}

\* Answers of the reviews endpoint, for has_reviewer_feedback alone.
ReviewsResponses ==
    {NetworkError, Http(404, FALSE, FALSE, 0, ErrorBody),
     Http(200, FALSE, FALSE, 0, <<>>)}
    \cup {Http(200, FALSE, FALSE, 0, <<Review("alice", s)>>) :
            s \in {"COMMENTED", "APPROVED", "CHANGES_REQUESTED", "PENDING",
                   "DISMISSED"}}
    \cup {Http(200, FALSE, FALSE, 0,
               <<Review("bob", "PENDING"), Review("Alice", "APPROVED")>>),
          Http(200, FALSE, FALSE, 0,
               <<Review("alice", "PENDING"), Review("bob", "APPROVED")>>)}

\* Sub-second part of datetime.now(), in microseconds.
Micros == {0, 1}

---------------------------------------------------------------------------
(* GitHubPRFetcher of prs-by-dev-html.py: the code's own computations *)

Range(seq) == {seq[i] : i \in DOMAIN seq}

\* response.status_code == 403 and 'X-RateLimit-Remaining' in response.headers
IsRateLimited(resp) == resp.status = 403 /\ resp.rl

\* wait_time = reset_time - int(time.time()) + 1
RateLimitWait(reset, now) == reset - now + 1

\* response.raise_for_status() raises HTTPError, a RequestException
RaisesForStatus(resp) == resp.status >= 400 /\ resp.status < 600

\* all_prs = prs instead of all_prs.extend(prs)
ExtendOverwrites(list, items) == items

\* all_prs.extend(prs)
Extend(list, items) == list \o items

\* page += 1
NextPageNumber(p) == p + 1

\* the restart goes on with the list of the attempt it gives up
RestartKeepsList(list) == list

\* return self.fetch_open_prs(repo): the value comes from a new call, whose
\* list starts with all_prs = []; the list of the calling frame is dropped
RestartedList(list) == <<>>

\* One turn of the `while True` loop of fetch_open_prs on the answer `resp`:
\*   "break"   leave the loop and return all_prs
\*   "restart" sleep, then return self.fetch_open_prs(repo)
\*   "next"    extend all_prs and go on with the next page
\*   otherwise the class of the exception that leaves the function:
\*   KeyError from response.headers['X-RateLimit-Reset'], ValueError from
\*   time.sleep of a negative length; neither is a RequestException.
fetch_open_prs_turn(resp, now) ==
    IF resp.kind = "error" THEN "break"
    ELSE IF IsRateLimited(resp) THEN
        IF ~resp.hasReset THEN "KeyError"
        ELSE IF RateLimitWait(resp.reset, now) < 0 THEN "ValueError"
        ELSE "restart"
    ELSE IF RaisesForStatus(resp) THEN "break"
    ELSE IF resp.body = <<>> THEN "break"
    ELSE "next"

\* every review state counted, a draft (PENDING) one too
CountedStatesWithDrafts ==
    {"COMMENTED", "APPROVED", "CHANGES_REQUESTED", "PENDING"}

\* ["COMMENTED", "APPROVED", "CHANGES_REQUESTED"]
CountedStates == {"COMMENTED", "APPROVED", "CHANGES_REQUESTED"}

\* each answer judged on its own: a comment counts although the reviews
\* request failed
has_reviewer_feedback_each(commentsResp, reviewsResp, reviewer) ==
    \/ /\ commentsResp.kind = "http" /\ commentsResp.status = 200
       /\ \E i \in DOMAIN commentsResp.body :
              commentsResp.body[i].login = reviewer
    \/ /\ reviewsResp.kind = "http" /\ reviewsResp.status = 200
       /\ \E i \in DOMAIN reviewsResp.body :
              /\ reviewsResp.body[i].login = reviewer
              /\ reviewsResp.body[i].state \in CountedStates

\* has_reviewer_feedback on the answers of the two endpoints
has_reviewer_feedback(commentsResp, reviewsResp, reviewer) ==
    IF commentsResp.kind = "error" \/ reviewsResp.kind = "error" THEN FALSE
    ELSE IF commentsResp.status = 200 /\ reviewsResp.status = 200 THEN
        \/ \E i \in DOMAIN commentsResp.body :
              commentsResp.body[i].login = reviewer
        \/ \E i \in DOMAIN reviewsResp.body :
              /\ reviewsResp.body[i].login = reviewer
              /\ reviewsResp.body[i].state \in CountedStates
    ELSE FALSE

\* >= instead of >
IsStaleInclusive(nowSec, nowMicros, updated_at, days) ==
    nowSec - ParseUpdatedAt(updated_at) >= days * 86400

\* (datetime.now(timezone.utc) - last_updated) > timedelta(days=days_stale)
\* with now = nowSec seconds and nowMicros microseconds
IsStale(nowSec, nowMicros, updated_at, days) ==
    LET elapsed == nowSec - ParseUpdatedAt(updated_at)
    IN  \/ elapsed > days * 86400
        \/ elapsed = days * 86400 /\ nowMicros > 0

\* reviewer_name in self.developers
IsDeveloper(login, devs) == login \in Range(devs)

\* The (pull request, requested reviewer) positions for which
\* extract_reviewers calls has_reviewer_feedback.
FeedbackPairs(list, devs) ==
    UNION { { <<i, j>> : j \in { k \in DOMAIN list[i].requested_reviewers :
                             IsDeveloper(list[i].requested_reviewers[k], devs) } }
            : i \in DOMAIN list }

Before(a, b) == a[1] < b[1] \/ (a[1] = b[1] /\ a[2] < b[2])

NoPair == <<0, 0>>

\* The first such position after `p` in the order of the two loops.
NextPair(list, devs, p) ==
    LET later == { q \in FeedbackPairs(list, devs) : Before(p, q) }
    IN  IF later = {} THEN NoPair
        ELSE CHOOSE q \in later : \A r \in later : q = r \/ Before(q, r)

\* The entry extract_reviewers appends
Entry(pr, in_progress, is_stale) ==
    [repo |-> pr.repo, pr_number |-> pr.number,
     inProgress |-> in_progress, isStale |-> is_stale]

\* the developers without entries kept
NonEmptyKeepsAll(data) == data

\* {dev: prs for dev, prs in reviewers_data.items() if prs}
NonEmpty(data) ==
    [d \in {e \in DOMAIN data : data[e] # <<>>} |-> data[d]]

\* The merge of fetch_and_display_prs: all_reviewers_data[reviewer].extend
MergeReport(all, extracted) ==
    [d \in DOMAIN all \cup DOMAIN extracted |->
        (IF d \in DOMAIN all THEN all[d] ELSE <<>>)
        \o (IF d \in DOMAIN extracted THEN extracted[d] ELSE <<>>)]

---------------------------------------------------------------------------
(* The run *)

Init ==
    /\ script \in Scripts
    /\ cfgFile \in ConfigFiles
    /\ pc = "load"
    /\ exc = "none"
    /\ logged = <<>>
    /\ repositories = <<>>
    /\ developers = <<>>
    /\ days_stale = DefaultDaysStale
    /\ repoIdx = 0
    /\ monthIdx = 0
    /\ page = 1
    /\ all_prs = <<>>
    /\ total_commits = 0
    /\ frameLog = <<>>
    /\ returned = <<>>
    /\ clock = Epoch0
    /\ budget = 0
    /\ pos = NoPair
    /\ reviewers_data = <<>>
    /\ report = <<>>
    /\ fetched = {}
    /\ feedbackLog = {}
    /\ abandoned = <<>>
    /\ last = [kind |-> "init"]

\* The loops over the configured repositories (and, in the commit report,
\* the three months) reach repository i, month m: a fresh call of the fetch
\* function, or the end of the loops.
Enter(repos, i, m) ==
    /\ repoIdx' = i
    /\ monthIdx' = m
    /\ pc' = IF i > Len(repos) THEN "done" ELSE "fetch"
    /\ page' = 1
    /\ all_prs' = <<>>
    /\ total_commits' = 0
    /\ frameLog' = <<>>
    /\ returned' = <<>>
    /\ pos' = NoPair
    /\ reviewers_data' = <<>>
    /\ abandoned' = <<>>

\* __main__ up to the first request: the configuration load and, in
\* prs-by-dev-html.py, `if repositories and developers`.
Load ==
    /\ pc = "load"
    /\ LET c == LoadStep(script, cfgFile) IN
        /\ last' = [kind |-> "load", raised |-> c.raised]
        /\ logged' = c.logged
        /\ IF c.raised # "none"
           THEN /\ pc' = "raised"
                /\ exc' = c.raised
                /\ UNCHANGED <<repositories, developers, days_stale, repoIdx,
                               monthIdx, page, all_prs, total_commits,
                               frameLog, returned, pos, reviewers_data,
                               abandoned>>
           ELSE /\ exc' = exc
                /\ repositories' = c.repositories
                /\ developers' = c.developers
                /\ days_stale' = c.days_stale
                /\ IF /\ script = "prs_by_dev_html"
                      /\ (c.repositories = <<>> \/ c.developers = <<>>)
                   THEN /\ pc' = "exit"
                        /\ UNCHANGED <<repoIdx, monthIdx, page, all_prs,
                                       total_commits, frameLog, returned,
                                       pos, reviewers_data, abandoned>>
                   ELSE Enter(c.repositories, 1, 1)
    /\ UNCHANGED <<script, cfgFile, clock, budget, report, fetched,
                   feedbackLog>>

\* One request of fetch_open_prs (prs-by-dev-html.py) and what the loop
\* does with the answer.
FetchOpenPrs ==
    /\ pc = "fetch"
    /\ script = "prs_by_dev_html"
    /\ \E resp \in ListResponses(
                     [n \in PageLens |->
                         PullsPage(repositories[repoIdx], page, n)],
                     clock) :
        LET turn == fetch_open_prs_turn(resp, clock)
            log  == Append(frameLog, [page |-> page, resp |-> Summary(resp)])
        IN  /\ turn \in {"next", "restart"} => budget < MaxContinue
            /\ last' = [kind |-> "fetch", page |-> page,
                        resp |-> Summary(resp), turn |-> turn, now |-> clock,
                        had |-> Len(all_prs)]
            /\ CASE turn = "next" ->
                      /\ page' = NextPageNumber(page)
                      /\ all_prs' = Extend(all_prs, resp.body)
                      /\ frameLog' = log
                      /\ budget' = budget + 1
                      /\ UNCHANGED <<pc, exc, returned, clock, abandoned>>
                 [] turn = "restart" ->
                      /\ clock' = clock + RateLimitWait(resp.reset, clock)
                      /\ page' = 1
                      /\ all_prs' = RestartedList(all_prs)
                      /\ frameLog' = <<>>
                      /\ abandoned' = Append(abandoned, Len(all_prs))
                      /\ budget' = budget + 1
                      /\ UNCHANGED <<pc, exc, returned>>
                 [] turn = "break" ->
                      /\ pc' = "returned"
                      /\ returned' = all_prs
                      /\ frameLog' = log
                      /\ UNCHANGED <<exc, page, all_prs, budget, clock,
                                     abandoned>>
                 [] OTHER ->
                      /\ pc' = "raised"
                      /\ exc' = turn
                      /\ frameLog' = log
                      /\ UNCHANGED <<returned, page, all_prs, budget, clock,
                                     abandoned>>
    /\ UNCHANGED <<script, cfgFile, logged, repositories, developers,
                   days_stale, repoIdx, monthIdx, total_commits, pos,
                   reviewers_data, report, fetched, feedbackLog>>

\* fetch_and_display_prs takes the fetched list: `if prs:` and
\* extract_reviewers up to its first call of has_reviewer_feedback (or, when
\* it makes none, to its end: it then returns an empty dict).
Dispatch ==
    /\ pc = "returned"
    /\ script = "prs_by_dev_html"
    /\ last' = [kind |-> "dispatch", n |-> Len(returned)]
    /\ fetched' = fetched \cup {pr \in Range(returned) :
                                   pr.requested_reviewers # <<>>}
    /\ LET first == NextPair(returned, developers, NoPair) IN
        IF first = NoPair
        THEN Enter(repositories, repoIdx + 1, 1)
        ELSE /\ pc' = "extract"
             /\ pos' = first
             /\ reviewers_data' = [d \in Range(developers) |-> <<>>]
             /\ all_prs' = <<>>
             /\ frameLog' = <<>>
             /\ abandoned' = <<>>
             /\ UNCHANGED <<repoIdx, monthIdx, page, total_commits, returned>>
    /\ UNCHANGED <<script, cfgFile, exc, logged, repositories, developers,
                   days_stale, clock, budget, report, feedbackLog>>

\* History of one assessment: its inputs and its two results.
Assessed(cr, rr, reviewer, fb, now, us, updated_at, days, st) ==
    [kind |-> "feedback", comments |-> cr, reviews |-> rr,
     reviewer |-> reviewer, result |-> fb, now |-> now, micros |-> us,
     updated_at |-> updated_at, days |-> days, stale |-> st]

\* One call of has_reviewer_feedback from extract_reviewers, the entry it
\* appends, and the loops on to the next call; after the last one the
\* extracted data is merged and the next repository is fetched.
Assess ==
    /\ pc = "extract"
    /\ \E cr \in RunComments, rr \in RunReviews, us \in Micros :
        LET pr       == returned[pos[1]]
            reviewer == pr.requested_reviewers[pos[2]]
            fb       == has_reviewer_feedback(cr, rr, reviewer)
            st       == IsStale(clock, us, pr.updated_at, days_stale)
            rd       == [reviewers_data EXCEPT
                           ![reviewer] = Append(@, Entry(pr, fb, st))]
            np       == NextPair(returned, developers, pos)
        IN  /\ last' = Assessed(cr, rr, reviewer, fb, clock, us,
                                 pr.updated_at, days_stale, st)
            /\ feedbackLog' = feedbackLog
                                \cup {<<pr.repo, pr.number, reviewer, fb>>}
            /\ IF np = NoPair
               THEN /\ report' = MergeReport(report, NonEmpty(rd))
                    /\ Enter(repositories, repoIdx + 1, 1)
               ELSE /\ reviewers_data' = rd
                    /\ pos' = np
                    /\ UNCHANGED <<pc, repoIdx, monthIdx, page, all_prs,
                                   total_commits, frameLog, returned, report,
                                   abandoned>>
    /\ UNCHANGED <<script, cfgFile, exc, logged, repositories, developers,
                   days_stale, clock, budget, fetched>>

---------------------------------------------------------------------------
(* who-has-prs.py *)

\* fetch_open_prs of who-has-prs.py on the answer `resp`: "empty" returns
\* [], "json" returns response.json(), "restart" sleeps and calls itself,
\* otherwise the class of the exception that leaves the function.
who_has_prs_turn(resp, now) ==
    IF resp.kind = "error" THEN "empty"
    ELSE IF IsRateLimited(resp) THEN
        IF ~resp.hasReset THEN "KeyError"
        ELSE IF RateLimitWait(resp.reset, now) < 0 THEN "ValueError"
        ELSE "restart"
    ELSE IF RaisesForStatus(resp) THEN "empty"
    ELSE "json"

\* extract_usernames
extract_usernames(list) ==
    [i \in DOMAIN list |->
        [repo |-> list[i].repo, pr_number |-> list[i].number,
         reviewers |-> list[i].requested_reviewers]]

\* The one request of fetch_open_prs (who-has-prs.py): no page parameter.
WhoFetch ==
    /\ pc = "fetch"
    /\ script = "who_has_prs"
    /\ \E resp \in ListResponses(
                     [n \in PageLens |->
                         PullsPage(repositories[repoIdx], 1, n)],
                     clock) :
        LET turn == who_has_prs_turn(resp, clock)
            log  == Append(frameLog, [page |-> 1, resp |-> Summary(resp)])
        IN  /\ turn = "restart" => budget < MaxContinue
            /\ last' = [kind |-> "fetch", page |-> 1,
                        resp |-> Summary(resp), turn |-> turn, now |-> clock,
                        had |-> 0]
            /\ CASE turn = "restart" ->
                      /\ clock' = clock + RateLimitWait(resp.reset, clock)
                      /\ frameLog' = <<>>
                      /\ budget' = budget + 1
                      /\ UNCHANGED <<pc, exc, returned>>
                 [] turn \in {"empty", "json"} ->
                      /\ pc' = "returned"
                      /\ returned' = IF turn = "json" THEN resp.body ELSE <<>>
                      /\ frameLog' = log
                      /\ UNCHANGED <<exc, budget, clock>>
                 [] OTHER ->
                      /\ pc' = "raised"
                      /\ exc' = turn
                      /\ frameLog' = log
                      /\ UNCHANGED <<returned, budget, clock>>
    /\ UNCHANGED <<script, cfgFile, logged, repositories, developers,
                   days_stale, repoIdx, monthIdx, page, all_prs,
                   total_commits, pos, reviewers_data, report, fetched,
                   feedbackLog, abandoned>>

\* fetch_and_display_prs of who-has-prs.py takes the fetched list.
WhoCollect ==
    /\ pc = "returned"
    /\ script = "who_has_prs"
    /\ last' = [kind |-> "dispatch", n |-> Len(returned)]
    /\ report' = IF returned # <<>>
                 THEN report \o extract_usernames(returned)
                 ELSE report
    /\ Enter(repositories, repoIdx + 1, 1)
    /\ UNCHANGED <<script, cfgFile, exc, logged, repositories, developers,
                   days_stale, clock, budget, fetched, feedbackLog>>

---------------------------------------------------------------------------
(* github_commit_report.py *)

\* One turn of the `while True` loop of get_commit_count on the answer
\* `resp`: requests.get is not in a try, so a RequestException leaves the
\* function; "break" returns the total so far, "last" adds the page and
\* returns, "next" adds it and goes on.
get_commit_count_turn(resp) ==
    IF resp.kind = "error" THEN "RequestException"
    ELSE IF resp.status # 200 THEN "break"
    ELSE IF Len(resp.body) < PageSize THEN "last"
    ELSE "next"

\* One request of get_commit_count.
CommitFetch ==
    /\ pc = "fetch"
    /\ script = "commit_report"
    /\ \E resp \in ListResponses([n \in PageLens |-> CommitsPage(page, n)],
                                  clock) :
        LET turn == get_commit_count_turn(resp)
            log  == Append(frameLog, [page |-> page, resp |-> Summary(resp)])
        IN  /\ turn = "next" => budget < MaxContinue
            /\ last' = [kind |-> "fetch", page |-> page,
                        resp |-> Summary(resp), turn |-> turn, now |-> clock,
                        had |-> total_commits]
            /\ frameLog' = log
            /\ CASE turn = "next" ->
                      /\ total_commits' = total_commits + Len(resp.body)
                      /\ page' = NextPageNumber(page)
                      /\ budget' = budget + 1
                      /\ UNCHANGED <<pc, exc, returned>>
                 [] turn = "last" ->
                      /\ total_commits' = total_commits + Len(resp.body)
                      /\ pc' = "returned"
                      /\ returned' = total_commits + Len(resp.body)
                      /\ UNCHANGED <<exc, page, budget>>
                 [] turn = "break" ->
                      /\ pc' = "returned"
                      /\ returned' = total_commits
                      /\ UNCHANGED <<exc, page, budget, total_commits>>
                 [] OTHER ->
                      /\ pc' = "raised"
                      /\ exc' = turn
                      /\ UNCHANGED <<returned, page, budget, total_commits>>
    /\ UNCHANGED <<script, cfgFile, logged, repositories, developers,
                   days_stale, repoIdx, monthIdx, all_prs, clock, pos,
                   reviewers_data, report, fetched, feedbackLog, abandoned>>

\* get_last_3_months gives three date ranges
Months == 3

\* report_data[repo].append((label, count)) and the two loops go on.
CommitCollect ==
    /\ pc = "returned"
    /\ script = "commit_report"
    /\ last' = [kind |-> "dispatch", n |-> returned]
    /\ LET repo == repositories[repoIdx] IN
        report' = [r \in DOMAIN report \cup {repo} |->
                     IF r = repo
                     THEN Append(Get(report, repo, <<>>),
                                 <<monthIdx, returned>>)
                     ELSE report[r]]
    /\ IF monthIdx < Months
       THEN Enter(repositories, repoIdx, monthIdx + 1)
       ELSE Enter(repositories, repoIdx + 1, 1)
    /\ UNCHANGED <<script, cfgFile, exc, logged, repositories, developers,
                   days_stale, clock, budget, fetched, feedbackLog>>

Next ==
    \/ Load
    \/ FetchOpenPrs \/ Dispatch \/ Assess
    \/ WhoFetch \/ WhoCollect
    \/ CommitFetch \/ CommitCollect

Spec == Init /\ [][Next]_vars

---------------------------------------------------------------------------
(* The classification alone: has_reviewer_feedback and the staleness test *)
(* of extract_reviewers on inputs drawn at the start                       *)

\* Configuration files load_config returns from.
LoadableConfigFiles == {f \in ConfigFiles : load_config(f).raised = "none"}

\* updated_at: 7 days, 1 day, and 9 days 1 second before Epoch0
UpdatedAts == {UpdatedAtOf(n) : n \in 1..3}

InitClassify ==
    /\ script = "prs_by_dev_html"
    /\ cfgFile \in LoadableConfigFiles
    /\ pc = "classify"
    /\ exc = "none"
    /\ logged = <<>>
    /\ repositories = <<>>
    /\ developers = <<>>
    /\ days_stale = DefaultDaysStale
    /\ repoIdx = 0
    /\ monthIdx = 0
    /\ page = 1
    /\ all_prs = <<>>
    /\ total_commits = 0
    /\ frameLog = <<>>
    /\ returned = <<>>
    /\ clock \in {Epoch0 - 1, Epoch0, Epoch0 + 1}
    /\ budget = 0
    /\ pos = NoPair
    /\ reviewers_data = <<>>
    /\ report = <<>>
    /\ fetched = {}
    /\ feedbackLog = {}
    /\ abandoned = <<>>
    /\ \E cr \in CommentsResponses, rr \in ReviewsResponses,
          reviewer \in Logins, us \in Micros, ts \in UpdatedAts :
          last = [kind |-> "inputs", comments |-> cr, reviews |-> rr,
                  reviewer |-> reviewer, micros |-> us, updated_at |-> ts]

\* GitHubPRFetcher(token, developers, config["days_stale"]) and one
\* assessment of extract_reviewers on the inputs.
Classify ==
    /\ pc = "classify"
    /\ pc' = "classified"
    /\ days_stale' = load_config(cfgFile).days_stale
    /\ last' = Assessed(last.comments, last.reviews, last.reviewer,
                        has_reviewer_feedback(last.comments, last.reviews,
                                              last.reviewer),
                        clock, last.micros, last.updated_at,
                        load_config(cfgFile).days_stale,
                        IsStale(clock, last.micros, last.updated_at,
                                load_config(cfgFile).days_stale))
    /\ UNCHANGED <<script, cfgFile, exc, logged, repositories, developers,
                   repoIdx, monthIdx, page, all_prs, total_commits, frameLog,
                   returned, clock, budget, pos, reviewers_data, report,
                   fetched, feedbackLog, abandoned>>

NextClassify == Classify

SpecClassify == InitClassify /\ [][NextClassify]_vars

---------------------------------------------------------------------------
(* Properties *)

\* The answer to the i-th request of the running frame was a 200 with n items.
Answered200(i, n) ==
    /\ frameLog[i].resp.kind = "http"
    /\ frameLog[i].resp.status = 200
    /\ frameLog[i].resp.n = n

\* The pull requests of pages 1..n of a repository, each a full page.
RECURSIVE FullPages(_, _)
FullPages(repo, n) ==
    IF n = 0 THEN <<>>
    ELSE FullPages(repo, n - 1) \o PullsPage(repo, n, PageSize)

\* C1: in each paginated fetch loop (fetch_open_prs of prs-by-dev-html.py,
\* get_commit_count), when page 1 is answered with status 200 and at least
\* one but fewer than 100 items, the fetch returns exactly that page's items
\* (get_commit_count: their count) and never requests page 2.
C1_ShortFirstPageEndsFetch ==
    /\ script \in {"prs_by_dev_html", "commit_report"}
    /\ frameLog # <<>>
    /\ \E n \in 1..(PageSize - 1) : Answered200(1, n)
    => /\ Len(frameLog) = 1
       /\ pc = "returned" =>
            IF script = "commit_report"
            THEN returned = frameLog[1].resp.n
            ELSE returned = PullsPage(repositories[repoIdx], 1,
                                      frameLog[1].resp.n)

\* C2: if pages 1..N of a fetch_open_prs call (prs-by-dev-html.py) are
\* answered with status 200 and exactly 100 items each and page N+1 with
\* status 200 and no item, the call returns the concatenation of pages 1..N
\* in page order and issues exactly N+1 requests, for pages 1, 2, ..., N+1.
C2_FullPagesThenEmpty ==
    script = "prs_by_dev_html" =>
        \A N \in 1..(Len(frameLog) - 1) :
            /\ \A i \in 1..N : Answered200(i, PageSize)
            /\ Answered200(N + 1, 0)
            => /\ Len(frameLog) = N + 1
               /\ \A i \in 1..(N + 1) : frameLog[i].page = i
               /\ pc = "returned"
               /\ returned = FullPages(repositories[repoIdx], N)

\* Two full pages and an empty third one have been fetched and returned.
C2_Witness ==
    /\ script = "prs_by_dev_html"
    /\ pc = "returned"
    /\ Len(frameLog) = 3
    /\ Answered200(1, PageSize) /\ Answered200(2, PageSize)
    /\ Answered200(3, 0)
    /\ Len(returned) = 2 * PageSize
    /\ returned[PageSize + 1].number = PageSize + 1

Max(a, b) == IF a >= b THEN a ELSE b

\* C3: on a 403 that carries the rate-limit-remaining header, with reset time
\* T at current time now, fetch_open_prs sleeps max(0, T - now + 1) seconds
\* and then fetches again from page 1 of the same repository, for every T
\* and now.
C3_SleepsClampedWait ==
    /\ script \in {"prs_by_dev_html", "who_has_prs"}
    /\ last.kind = "fetch"
    /\ last.resp.kind = "http" /\ last.resp.status = 403
    /\ last.resp.rl /\ last.resp.hasReset
    => /\ pc = "fetch"
       /\ exc = "none"
       /\ clock = last.now + Max(0, last.resp.reset - last.now + 1)
       /\ page = 1
       /\ all_prs = <<>>
       /\ frameLog = <<>>

\* The request failed: a network error or a status other than 200.
Failed(resp) == resp.kind = "error" \/ resp.status # 200

\* The entry the last assessment appended for its reviewer.
LastEntry ==
    LET list == IF pc = "extract" THEN reviewers_data[last.reviewer]
                ELSE report[last.reviewer]
    IN  list[Len(list)]

\* C4: if the comments request or the reviews request of
\* has_reviewer_feedback fails (a status other than 200, a network error),
\* the call does not raise and returns false, whatever the other answer
\* holds, and the run goes on.
C4_FailedRequestMeansNoFeedback ==
    /\ script = "prs_by_dev_html"
    /\ last.kind = "feedback"
    /\ Failed(last.comments) \/ Failed(last.reviews)
    => /\ last.result = FALSE
       /\ exc = "none"
       /\ pc \in {"extract", "fetch", "done"}
       /\ LastEntry.inProgress = FALSE

\* The comments request failed while the reviews answer holds an APPROVED
\* review of the reviewer; the run went on.
C4_Witness ==
    /\ script = "prs_by_dev_html"
    /\ last.kind = "feedback"
    /\ last.comments.kind = "error"
    /\ last.reviews.status = 200
    /\ last.reviewer = "bob"
    /\ Review("bob", "APPROVED") \in Range(last.reviews.body)
    /\ last.result = FALSE
    /\ pc = "fetch"

\* The logins that have given feedback according to two 200 answers.
FeedbackGivers(comments, reviews) ==
    {c.login : c \in Range(comments)}
    \cup {r.login : r \in {x \in Range(reviews) :
                             x.state = "COMMENTED" \/ x.state = "APPROVED"
                             \/ x.state = "CHANGES_REQUESTED"}}

\* C5: when both requests return 200, has_reviewer_feedback is true if and
\* only if some comment's author equals the reviewer, or some review's
\* author equals the reviewer and its state is COMMENTED, APPROVED or
\* CHANGES_REQUESTED; logins are compared exactly.
C5_FeedbackIffCommentOrCountedReview ==
    /\ last.kind = "feedback"
    /\ ~Failed(last.comments) /\ ~Failed(last.reviews)
    => (last.result <=>
          last.reviewer \in FeedbackGivers(last.comments.body,
                                           last.reviews.body))

\* The reviewer's only review is PENDING, another login's is APPROVED, no
\* comment is the reviewer's: no feedback.
C5_Witness ==
    /\ last.kind = "feedback"
    /\ ~Failed(last.comments) /\ ~Failed(last.reviews)
    /\ last.reviewer = "alice"
    /\ last.reviews.body = <<Review("alice", "PENDING"),
                             Review("bob", "APPROVED")>>
    /\ last.comments.body = <<Comment("carol"), Comment("Alice")>>
    /\ last.result = FALSE

\* The entries of developer d in the report for pull request pr.
EntriesFor(d, pr) ==
    {k \in DOMAIN report[d] :
        report[d][k].repo = pr.repo /\ report[d][k].pr_number = pr.number}

\* C6: the report fetch_and_display_prs returns holds, for every fetched
\* pull request and every requested reviewer of it that is a configured
\* developer, exactly one entry under that developer, whose inProgress is
\* the result of has_reviewer_feedback for the pair; it holds no entry for
\* anyone else, and no developer without entries.
C6_ReportMatchesRequestedReviews ==
    script = "prs_by_dev_html" /\ pc = "done" =>
        /\ \A pr \in fetched : \A r \in Range(pr.requested_reviewers) :
              r \in Range(developers) =>
                 /\ r \in DOMAIN report
                 /\ Cardinality(EntriesFor(r, pr)) = 1
                 /\ \A k \in EntriesFor(r, pr) :
                      <<pr.repo, pr.number, r, report[r][k].inProgress>>
                         \in feedbackLog
                 /\ Cardinality({t \in feedbackLog :
                        t[1] = pr.repo /\ t[2] = pr.number /\ t[3] = r}) = 1
        /\ \A d \in DOMAIN report :
              /\ d \in Range(developers)
              /\ report[d] # <<>>
              /\ \A k \in DOMAIN report[d] : \E pr \in fetched :
                    /\ k \in EntriesFor(d, pr)
                    /\ d \in Range(pr.requested_reviewers)

\* A finished report with two developers, two entries for one of them, and
\* entries with and without feedback.
C6_Witness ==
    /\ script = "prs_by_dev_html"
    /\ pc = "done"
    /\ DOMAIN report = {"alice", "bob"}
    /\ Len(report["alice"]) = 2
    /\ \E k \in DOMAIN report["alice"] : report["alice"][k].inProgress
    /\ \E k \in DOMAIN report["bob"] : ~report["bob"][k].inProgress

\* C7: isStale is true exactly when now - updated_at is strictly greater
\* than days_stale days, false at the threshold and below it; days_stale is
\* 7 when the configuration does not give it.
C7_StaleStrictlyAfterThreshold ==
    last.kind = "feedback" =>
        /\ last.stale <=>
              Before(<<last.days * 86400, 0>>,
                     <<last.now - ParseUpdatedAt(last.updated_at),
                       last.micros>>)
        /\ last.days =
              IF cfgFile.kind = "mapping" /\ "days_stale" \in DOMAIN cfgFile.map
              THEN cfgFile.map["days_stale"]
              ELSE 7

\* Exactly 7 days after updated_at, with no days_stale configured: not stale.
C7_Witness ==
    /\ last.kind = "feedback"
    /\ cfgFile.kind = "mapping"
    /\ "days_stale" \notin DOMAIN cfgFile.map
    /\ last.updated_at = <<2025, 3, 3, 12, 0, 0>>
    /\ last.now = Epoch0
    /\ last.micros = 0
    /\ last.stale = FALSE

\* The items of the first k answers of the running frame.
RECURSIVE Served(_, _)
Served(repo, k) ==
    IF k = 0 THEN <<>>
    ELSE Served(repo, k - 1)
           \o PullsPage(repo, frameLog[k].page, frameLog[k].resp.n)

\* The last request of the frame ended the fetch: it returned, without an
\* exception, the items of the pages fetched before it.
FetchEndedWithPagesSoFar ==
    /\ pc = "returned"
    /\ exc = "none"
    /\ frameLog # <<>>
    /\ frameLog[Len(frameLog)].resp = last.resp
    /\ returned = Served(repositories[repoIdx], Len(frameLog) - 1)

\* C8: a page request of fetch_open_prs that fails other than by
\* a rate-limited 403 (a network error, any status other than 200) does
\* not raise, ends the requests and returns the pages fetched before it.
C8_AnyNon200EndsFetch ==
    /\ script = "prs_by_dev_html"
    /\ last.kind = "fetch"
    /\ \/ last.resp.kind = "error"
       \/ last.resp.status # 200 /\ ~(last.resp.status = 403 /\ last.resp.rl)
    => FetchEndedWithPagesSoFar

\* C9: no failure answer aborts the job: whatever the API answers, no
\* exception leaves fetch_and_display_prs.
C9_NoExceptionLeavesTheJob ==
    script = "prs_by_dev_html" => ~(pc = "raised" /\ last.kind = "fetch")

\* C10: for every entry point, a missing, malformed or empty configuration
\* file is not fatal: the load gives empty repository and developer lists
\* and the staleness threshold 7, logs, and lets no exception out.
C10_ConfigLoadNeverRaises ==
    /\ last.kind = "load"
    /\ cfgFile.kind \in {"missing", "malformed", "empty"}
    => /\ exc = "none"
       /\ pc # "raised"
       /\ repositories = <<>>
       /\ developers = <<>>
       /\ days_stale = 7
       /\ logged # <<>>

\* The pull requests of a list are in strictly rising number order: none
\* occurs twice.
NoneTwice(list) ==
    \A i \in 1..(Len(list) - 1) : list[i].number < list[i + 1].number

\* C11: a rate-limited 403 at any page of fetch_open_prs (prs-by-dev-html.py)
\* discards the pages accumulated so far in the call: the list starts empty
\* again at page 1, and the value finally returned is exactly what the
\* restarted fetch from page 1 returns, the items of the pages 1, 2, ... it
\* was served before the answer that ended it; after any number of restarts
\* the result holds no item of an abandoned attempt and no item twice.
C11_RestartDiscardsAttempt ==
    script = "prs_by_dev_html" =>
        /\ pc = "fetch" =>
              /\ page = Len(frameLog) + 1
              /\ all_prs = Served(repositories[repoIdx], Len(frameLog))
        /\ pc = "fetch" /\ last.kind = "fetch" /\ last.turn = "restart" =>
              /\ abandoned # <<>>
              /\ abandoned[Len(abandoned)] = last.had
              /\ page = 1
              /\ all_prs = <<>>
        /\ pc = "returned" =>
              /\ frameLog # <<>>
              /\ \A i \in DOMAIN frameLog : frameLog[i].page = i
              /\ returned = Served(repositories[repoIdx], Len(frameLog) - 1)
              /\ NoneTwice(returned)

\* A call returned the one-item page 1 of its second attempt alone: a
\* rate-limited 403 at page 2 had abandoned the full page 1 of the first.
C11_Witness ==
    /\ script = "prs_by_dev_html"
    /\ pc = "returned"
    /\ Len(abandoned) = 1
    /\ abandoned[1] = PageSize
    /\ Len(frameLog) = 2
    /\ Len(returned) = 1
    /\ returned[1].number = 1

============================================================================
